---- MODULE Spec2Model ----
(***************************************************************************)
(* A model of the GitHub scraper of src/data.py: the rate-limited          *)
(* api_call, the paginated fetches, process_user, and the fan-out of main  *)
(* over a ThreadPoolExecutor.                                              *)
(*                                                                         *)
(* Threads: thread 0 is the main thread; thread i in 1..Len(berlin_users)  *)
(* is the execution of process_user for the i-th stub.                     *)
(*                                                                         *)
(* api_call is decorated with @sleep_and_retry @limits(calls, period) of   *)
(* the ratelimit package.  limits keeps one counter num_calls and one      *)
(* time stamp last_reset under a lock: an attempt first resets both when   *)
(* period - (clock() - last_reset) <= 0, then counts itself, and raises    *)
(* RateLimitException(period_remaining) when the count exceeds calls;      *)
(* sleep_and_retry catches it, sleeps period_remaining and attempts again. *)
(* The decorated function (requests.get) runs after the lock is released.  *)
(* Time is discrete; elapsed is clock() - last_reset, kept up to the       *)
(* period (beyond it every value behaves alike).                           *)
(*                                                                         *)
(* recent and reqs are history variables: they record what the remote has  *)
(* received and never influence a step.  Each specification keeps the      *)
(* history its properties read:                                            *)
(*   Spec        the fan-out over NumStubs stubs                           *)
(*   FairSpec    the fan-out over NumFairStubs stubs under fair            *)
(*               scheduling, with the requests of each thread              *)
(*   SpecWindow  Spec with the remote's log of the last ONE_MINUTE         *)
(*   SpecUser    the fan-out over one stub, with every answer              *)
(*   SpecSearch  get_berlin_users alone, with every answer and its items   *)
(*               (FairSearchSpec: under fair scheduling)                   *)
(*   SpecRepos   process_user for one stub with get_user_repos under any   *)
(*               max_repos of 1..MaxCap, with every answer and its items   *)
(*   SpecMain    the fan-out over any list of up to NumFairStubs stubs,    *)
(*               and the final datasets                                    *)
(*   SpecSchedule  SpecMain against a remote whose answers depend on the   *)
(*               request alone                                             *)
(*   SpecCompany clean_company_name alone                                  *)
(* Spec, FairSpec, SpecWindow and SpecUser end where the with block of     *)
(* main ends; SpecMain and SpecSchedule go on to the end of main.          *)
(***************************************************************************)
EXTENDS Integers, Sequences, FiniteSets, TLC

\* The limiter's cap and period, scaled down from 80 calls per 60 time
\* units (src/data.py:11-12); every property below is stated in terms of
\* these two names.
CALLS_PER_MINUTE == 2
ONE_MINUTE == 2

\* per_page of both listings, scaled down from 100 (src/data.py:41,83), and
\* the default max_repos of get_user_repos, scaled down from 500.
PER_PAGE == 2
MAX_REPOS == 3

\* max_workers of the pool, scaled down from 5 (src/data.py:169), and the
\* number of stubs handed to the fan-out.
MAX_WORKERS == 2
NumStubs == 3

\* The number of stubs of the runs that are checked for liveness (FairSpec).
NumFairStubs == 2

\* Pages the remote serves to the search before it answers with an empty page.
MaxSearchPages == 2

\* The most repositories a user of the remote has.
MaxUserRepos == 1

\* The largest max_repos handed to get_user_repos, and the most repositories
\* the remote lists for a user, in the runs of get_user_repos (SpecRepos).
MaxCap == 6
MaxListed == 5

\* The longest company string handed to clean_company_name (SpecCompany).
MaxLen == 3

LoginNames == <<"u1", "u2", "u3", "u4", "u5">>
Logins == {"u1", "u2"}
Users == {LoginNames[k] : k \in 1..Len(LoginNames)}
None == "None"

Min(a, b) == IF a < b THEN a ELSE b

VARIABLES
    pc,             \* position of main
    berlin_users,   \* the stubs (their logins), result of get_berlin_users
    users,          \* get_berlin_users: the local list users
    submitted,      \* number of stubs handed to executor.submit
    pcw,            \* per thread: what it is running
    call,           \* per thread: position inside api_call
    sleep_left,     \* per thread: remaining time of time.sleep
    page,           \* per thread: local page of the running pagination
    repos,          \* per thread: local repos of get_user_repos
    user_details,   \* per thread: local user_details of process_user
    result,         \* per stub: the future's outcome
    logging,        \* what reqs records: nothing ("off"), the requests
                    \* ("requests"), also how each ended ("answers"), or also
                    \* the items of each answer ("bodies")
    reqs,           \* per thread: the requests it issued and how each ended,
                    \* <<endpoint, page, kind of the answer, items of the answer>>
    num_calls,      \* limiter: attempts counted in the current window
    elapsed,        \* limiter: clock() - last_reset, up to ONE_MINUTE
    recent,         \* the remote's log: recent[k] requests k-1 time units ago
                    \* (kept when it starts non-empty, see SpecWindow)
    completed,      \* main: the counter completed
    collected,      \* main: futures as_completed has yielded
    cur,            \* main: the future of the current loop iteration
    users_data,     \* main: users_data
    all_repos_data, \* main: all_repos_data
    errors,         \* main: stubs reported by the except branch of the loop
    users_csv,      \* the file users.csv: None until main writes it
    repos_csv,      \* the file repositories.csv: None until main writes it
    max_repos,      \* the argument max_repos of get_user_repos
    remote,         \* per login: how the remote answers for this user
    company,        \* clean_company_name: its argument
    cleaned         \* clean_company_name: its result, once pc is "cleaned"

vars == <<pc, berlin_users, users, submitted, pcw, call, sleep_left, page, repos,
          user_details, result, logging, reqs, num_calls, elapsed, recent, completed,
          collected,
          cur, users_data, all_repos_data, errors, users_csv, repos_csv, max_repos,
          remote, company, cleaned>>

limiter == <<num_calls, elapsed>>
files == <<users_csv, repos_csv>>
env == <<max_repos, remote>>
cleaning == <<company, cleaned>>
mainvars == <<pc, berlin_users, users, submitted, completed, collected, cur,
              users_data, all_repos_data, errors>>

Stubs == 1..Len(berlin_users)
Threads == 0..NumStubs

\* A future's outcome: not finished, an exception, the tuple (None, None), or
\* the tuple (user_details, repos_df) with a DataFrame (its rows; <<>> is empty).
Pending == [kind |-> "pending", details |-> None, repos_df |-> <<>>]
Raised == [kind |-> "raised", details |-> None, repos_df |-> <<>>]
NoneNone == [kind |-> "none", details |-> None, repos_df |-> <<>>]
Value(d, df) == [kind |-> "value", details |-> d, repos_df |-> df]

(***************************************************************************)
(* The remote service.  A fetch ends in one of four ways: a decoded body   *)
(* with status 200 ("ok"), a status other than 200 ("status"), requests    *)
(* raising for a connection error or timeout ("transport"), or             *)
(* response.json() raising on a 200 answer ("decode").                     *)
(***************************************************************************)
Failure(k) == [kind |-> k, items |-> <<>>]
Ok(items) == [kind |-> "ok", items |-> items]
Failures == {Failure(k) : k \in {"status", "transport", "decode"}}

\* The stub lists of the fan-out: pairwise distinct logins but for the last
\* stub, which is the user of the first once more (the search may return a
\* user on two pages).
StubList(n) == [i \in 1..n |-> LoginNames[IF i = n THEN 1 ELSE i]]

\* How the remote answers the requests about one user. A remote that is not
\* fixed may answer each request in any way, and the user has at most count
\* repositories. A fixed remote answers by the request alone: the detail
\* endpoint always ends as details says, the listing always as listing says,
\* and the user has exactly count repositories.
AnyRemote(n) ==
    [l \in Users |-> [fixed |-> FALSE, details |-> "ok", listing |-> "ok", count |-> n]]
FixedUser(d, g, n) == [fixed |-> TRUE, details |-> d, listing |-> g, count |-> n]
FixedUsers ==
    {FixedUser("ok", "ok", MaxUserRepos), FixedUser("ok", "ok", 0),
     FixedUser("ok", "transport", 0), FixedUser("status", "ok", 0)}
FixedRemotes == [{StubList(NumStubs)[i] : i \in 1..NumStubs} -> FixedUsers]

\* Page p of a repository listing holding n items; have is the number of
\* items of the earlier pages.
RepoPage(p, n) == [k \in 1..n |-> <<p, k>>]
PageSize(p, count) ==
    IF count <= (p - 1) * PER_PAGE THEN 0 ELSE Min(PER_PAGE, count - (p - 1) * PER_PAGE)
RepoResponses(username, p, have) ==
    LET r == remote[username] IN
      IF r.fixed
      THEN {IF r.listing = "ok" THEN Ok(RepoPage(p, PageSize(p, r.count)))
            ELSE Failure(r.listing)}
      ELSE {Ok(RepoPage(p, n)) : n \in 0..Min(PER_PAGE, r.count - have)} \cup Failures

\* A search page holds up to PER_PAGE stubs; past MaxSearchPages it is empty.
SearchItems(p) ==
    IF p > MaxSearchPages THEN {<<>>}
    ELSE UNION {[1..n -> Logins] : n \in 0..PER_PAGE}
SearchResponses(p) == {Ok(it) : it \in SearchItems(p)} \cup Failures

\* The detail endpoint answers with the profile of the login asked for.
DetailResponses(username) ==
    LET r == remote[username] IN
      IF r.fixed
      THEN {IF r.details = "ok" THEN Ok(<<username>>) ELSE Failure(r.details)}
      ELSE {Ok(<<username>>)} \cup Failures

\* response.json() of the detail endpoint: the profile (its login).
Body(resp) == IF resp.items = <<>> THEN None ELSE resp.items[1]

(***************************************************************************)
(* api_call: the limits wrapper, sleep_and_retry, and time.                *)
(***************************************************************************)
PeriodRemaining == ONE_MINUTE - elapsed

\* Variant: the attempt is counted but the call goes through over the cap.
AcquireUnlimited(t) ==
    /\ call[t] = "acquire"
    /\ LET remaining == PeriodRemaining
           n == (IF remaining <= 0 THEN 0 ELSE num_calls) + 1
       IN /\ num_calls' = n
          /\ elapsed' = IF remaining <= 0 THEN 0 ELSE elapsed
          /\ call' = [call EXCEPT ![t] = "request"]
          /\ UNCHANGED sleep_left
    /\ UNCHANGED <<files, env, cleaning, mainvars, pcw, page, repos, user_details,
                   result, logging, reqs, recent>>

\* One attempt of the limits wrapper, under its lock.
Acquire(t) ==
    /\ call[t] = "acquire"
    /\ LET remaining == PeriodRemaining
           n == (IF remaining <= 0 THEN 0 ELSE num_calls) + 1
       IN /\ num_calls' = n
          /\ elapsed' = IF remaining <= 0 THEN 0 ELSE elapsed
          /\ IF n > CALLS_PER_MINUTE
             THEN /\ call' = [call EXCEPT ![t] = "sleep"]
                  /\ sleep_left' = [sleep_left EXCEPT ![t] = remaining]
             ELSE /\ call' = [call EXCEPT ![t] = "request"]
                  /\ UNCHANGED sleep_left
    /\ UNCHANGED <<files, env, cleaning, mainvars, pcw, page, repos, user_details, result, logging, reqs,
                   recent>>

\* Variant: sleep_and_retry without its loop, api_call returns after the sleep.
TickNoRetry ==
    /\ elapsed' = Min(elapsed + 1, ONE_MINUTE)
    /\ sleep_left' = [t \in Threads |-> IF sleep_left[t] > 0 THEN sleep_left[t] - 1 ELSE 0]
    /\ call' = [t \in Threads |->
                  IF call[t] = "sleep" /\ sleep_left[t] <= 1 THEN "none" ELSE call[t]]
    /\ recent' = IF recent = <<>> THEN recent
                  ELSE <<0>> \o SubSeq(recent, 1, ONE_MINUTE - 1)
    /\ UNCHANGED <<files, env, cleaning, mainvars, pcw, page, repos, user_details, result, logging, reqs,
                   num_calls>>

\* One unit of time passes; a sleep that has run out returns to the retry loop.
Tick ==
    /\ elapsed' = Min(elapsed + 1, ONE_MINUTE)
    /\ sleep_left' = [t \in Threads |-> IF sleep_left[t] > 0 THEN sleep_left[t] - 1 ELSE 0]
    /\ call' = [t \in Threads |->
                  IF call[t] = "sleep" /\ sleep_left[t] <= 1 THEN "acquire" ELSE call[t]]
    /\ recent' = IF recent = <<>> THEN recent
                  ELSE <<0>> \o SubSeq(recent, 1, ONE_MINUTE - 1)
    /\ UNCHANGED <<files, env, cleaning, mainvars, pcw, page, repos, user_details, result, logging, reqs,
                   num_calls>>

\* requests.get is called and ends with resp: the remote observes one more
\* request now.
Issued(t, endpoint, resp) ==
    /\ recent' = IF recent = <<>> THEN recent ELSE [recent EXCEPT ![1] = @ + 1]
    /\ reqs' = IF logging = "off" THEN reqs
               ELSE [reqs EXCEPT ![t] =
                       Append(@, <<endpoint, page[t],
                                   IF logging = "requests" THEN "-" ELSE resp.kind,
                                   IF logging = "bodies" THEN resp.items ELSE <<>> >>)]
    /\ UNCHANGED logging

\* requests.get or response.json() raises: the exception leaves the caller.
Raises(resp) == resp.kind \in {"transport", "decode"}

(***************************************************************************)
(* The paginated fetches.                                                  *)
(***************************************************************************)
\* Variant: the items of a page are put in front of the earlier ones.
SearchStepPrepend(us, p, resp) ==
    IF Raises(resp) THEN [next |-> "raise", users |-> us, page |-> p]
    ELSE IF resp.kind # "ok" THEN [next |-> "return", users |-> us, page |-> p]
    ELSE IF resp.items = <<>> THEN [next |-> "return", users |-> us, page |-> p]
    ELSE [next |-> "fetch", users |-> resp.items \o us, page |-> p + 1]

\* Variant: the search has a page cap of its own and returns after one page.
SearchStepCapped(us, p, resp) ==
    IF Raises(resp) THEN [next |-> "raise", users |-> us, page |-> p]
    ELSE IF resp.kind # "ok" THEN [next |-> "return", users |-> us, page |-> p]
    ELSE IF resp.items = <<>> THEN [next |-> "return", users |-> us, page |-> p]
    ELSE [next |-> "return", users |-> us \o resp.items, page |-> p + 1]

\* get_berlin_users: what the loop body does with the answer to page p.
SearchStep(us, p, resp) ==
    IF Raises(resp) THEN [next |-> "raise", users |-> us, page |-> p]
    ELSE IF resp.kind # "ok" THEN [next |-> "return", users |-> us, page |-> p]
    ELSE IF resp.items = <<>> THEN [next |-> "return", users |-> us, page |-> p]
    ELSE [next |-> "fetch", users |-> us \o resp.items, page |-> p + 1]

\* Variant: the loop does not end at a page shorter than per_page.
ReposStepNoShortBreak(rs, p, resp, cap) ==
    IF Raises(resp) THEN [next |-> "raise", repos |-> rs, page |-> p]
    ELSE IF resp.kind # "ok" THEN [next |-> "return", repos |-> rs, page |-> p]
    ELSE IF resp.items = <<>> THEN [next |-> "return", repos |-> rs, page |-> p]
    ELSE IF Len(rs \o resp.items) < cap
         THEN [next |-> "fetch", repos |-> rs \o resp.items, page |-> p + 1]
    ELSE [next |-> "return", repos |-> rs \o resp.items, page |-> p + 1]

\* get_user_repos: what the loop body does with the answer to page p, and
\* the loop test that follows page += 1.
ReposStep(rs, p, resp, cap) ==
    IF Raises(resp) THEN [next |-> "raise", repos |-> rs, page |-> p]
    ELSE IF resp.kind # "ok" THEN [next |-> "return", repos |-> rs, page |-> p]
    ELSE IF resp.items = <<>> THEN [next |-> "return", repos |-> rs, page |-> p]
    ELSE IF Len(resp.items) < PER_PAGE
         THEN [next |-> "return", repos |-> rs \o resp.items, page |-> p]
    ELSE IF Len(rs \o resp.items) < cap
         THEN [next |-> "fetch", repos |-> rs \o resp.items, page |-> p + 1]
    ELSE [next |-> "return", repos |-> rs \o resp.items, page |-> p + 1]

\* Variant: get_user_repos returns repos, not repos[:max_repos].
TruncateNot(rs, cap) == rs

\* repos[:max_repos], with cap the value of max_repos
Truncate(rs, cap) == SubSeq(rs, 1, Min(Len(rs), cap))

\* Variant: the login column is not set to username.
create_repos_dataframe_unowned(repos_data, username) ==
    [k \in 1..Len(repos_data) |-> [login |-> None, repo |-> repos_data[k]]]

\* The rows of the DataFrame: one per repository, with login = username.
create_repos_dataframe(repos_data, username) ==
    [k \in 1..Len(repos_data) |-> [login |-> username, repo |-> repos_data[k]]]

\* One request of the search and the handling of its answer.
SearchPage ==
    /\ pc = "search"
    /\ call[0] = "request"
    /\ \E resp \in SearchResponses(page[0]) :
         LET step == SearchStep(users, page[0], resp) IN
           /\ Issued(0, "search", resp)
           /\ users' = step.users
           /\ page' = [page EXCEPT ![0] = step.page]
           /\ call' = [call EXCEPT ![0] = IF step.next = "fetch" THEN "acquire" ELSE "none"]
           /\ pc' = CASE step.next = "fetch" -> "search"
                      [] step.next = "return" -> "submit"
                      [] step.next = "raise" -> "error"
           /\ berlin_users' = IF step.next = "return" THEN step.users ELSE berlin_users
    /\ UNCHANGED <<files, env, cleaning, submitted, pcw, sleep_left, repos, user_details, result, limiter,
                   completed, collected, cur, users_data, all_repos_data, errors>>

(***************************************************************************)
(* process_user, run by the pool for stub i.                               *)
(***************************************************************************)
Running(i) == pcw[i] \in {"details", "repos"}
InFlight == {i \in Stubs : Running(i)}

\* Variant: a thread is started for every work item, whatever max_workers.
StartUnbounded(i) ==
    /\ pcw[i] = "queued"
    /\ \A j \in Stubs : pcw[j] = "queued" => i <= j
    /\ pcw' = [pcw EXCEPT ![i] = "details"]
    /\ call' = [call EXCEPT ![i] = "acquire"]
    /\ UNCHANGED <<files, env, cleaning, mainvars, sleep_left, page, repos, user_details, result, logging,
                   reqs, limiter, recent>>

\* A pool thread takes the oldest queued work item; the pool has at most
\* max_workers threads and each runs one item at a time.
Start(i) ==
    /\ pcw[i] = "queued"
    /\ \A j \in Stubs : pcw[j] = "queued" => i <= j
    /\ Cardinality(InFlight) < MAX_WORKERS
    /\ pcw' = [pcw EXCEPT ![i] = "details"]
    /\ call' = [call EXCEPT ![i] = "acquire"]
    /\ UNCHANGED <<files, env, cleaning, mainvars, sleep_left, page, repos, user_details, result, logging,
                   reqs, limiter, recent>>

\* Variant: get_user_details returns the body whatever the status.
DetailsStepAnyStatus(resp) == IF Raises(resp) THEN "raise" ELSE "repos"

\* What process_user does with the answer of the detail endpoint.
DetailsStep(resp) ==
    IF Raises(resp) THEN "raise"
    ELSE IF resp.kind # "ok" THEN "return"
    ELSE "repos"

\* get_user_details: the request and the handling of its answer.
Details(i) ==
    /\ pcw[i] = "details"
    /\ call[i] = "request"
    /\ \E resp \in DetailResponses(berlin_users[i]) :
         LET next == DetailsStep(resp) IN
           /\ Issued(i, "details", resp)
           /\ IF next = "repos"
              THEN /\ user_details' = [user_details EXCEPT ![i] = Body(resp)]
                   /\ pcw' = [pcw EXCEPT ![i] = "repos"]
                   /\ page' = [page EXCEPT ![i] = 1]
                   /\ call' = [call EXCEPT ![i] = "acquire"]
                   /\ UNCHANGED result
              ELSE /\ result' = [result EXCEPT ![i] =
                                   IF next = "raise" THEN Raised ELSE NoneNone]
                   /\ pcw' = [pcw EXCEPT ![i] = "done"]
                   /\ call' = [call EXCEPT ![i] = "none"]
                   /\ UNCHANGED <<user_details, page>>
    /\ UNCHANGED <<files, env, cleaning, mainvars, sleep_left, repos, limiter>>

\* get_user_repos: one request, the handling of its answer, and on return
\* the rest of process_user.
Repos(i) ==
    /\ pcw[i] = "repos"
    /\ call[i] = "request"
    /\ \E resp \in RepoResponses(berlin_users[i], page[i], Len(repos[i])) :
         LET step == ReposStep(repos[i], page[i], resp, max_repos)
             rs == Truncate(step.repos, max_repos)
             repos_df == IF rs # <<>>
                         THEN create_repos_dataframe(rs, berlin_users[i]) ELSE <<>>
         IN
           /\ Issued(i, "repos", resp)
           /\ IF step.next = "fetch"
              THEN /\ repos' = [repos EXCEPT ![i] = step.repos]
                   /\ page' = [page EXCEPT ![i] = step.page]
                   /\ call' = [call EXCEPT ![i] = "acquire"]
                   /\ UNCHANGED <<pcw, result, user_details>>
              ELSE /\ result' = [result EXCEPT ![i] =
                                   IF step.next = "raise" THEN Raised
                                   ELSE Value(user_details[i], repos_df)]
                   /\ pcw' = [pcw EXCEPT ![i] = "done"]
                   /\ call' = [call EXCEPT ![i] = "none"]
                   /\ repos' = [repos EXCEPT ![i] = <<>>]
                   /\ page' = [page EXCEPT ![i] = 0]
                   /\ user_details' = [user_details EXCEPT ![i] = None]
    /\ UNCHANGED <<files, env, cleaning, mainvars, sleep_left, limiter>>

(***************************************************************************)
(* main: the fan-out and the accumulation of the results.                  *)
(***************************************************************************)
\* executor.submit for the next stub of the dict comprehension.
Submit ==
    /\ pc = "submit"
    /\ submitted < Len(berlin_users)
    /\ submitted' = submitted + 1
    /\ pcw' = [pcw EXCEPT ![submitted + 1] = "queued"]
    /\ UNCHANGED <<files, env, cleaning, pc, berlin_users, users, call, sleep_left, page, repos, user_details,
                   result, logging, reqs, limiter, recent, completed, collected, cur,
                   users_data, all_repos_data, errors>>

\* Every stub is submitted: completed = 0 and the as_completed loop begins.
EnterLoop ==
    /\ pc = "submit"
    /\ submitted = Len(berlin_users)
    /\ pc' = "as_completed"
    /\ completed' = 0
    /\ UNCHANGED <<files, env, cleaning, berlin_users, users, submitted, pcw, call, sleep_left, page, repos,
                   user_details, result, logging, reqs, limiter, recent, collected, cur,
                   users_data, all_repos_data, errors>>

\* Variant: only the futures that returned a value are ever yielded.
YieldsValues(i) == i \in Stubs /\ i \notin collected /\ result[i].kind \in {"none", "value"}

\* as_completed yields a finished future it has not yielded before.
Yields(i) == i \in Stubs /\ i \notin collected /\ result[i].kind # "pending"

\* Variant: user_details is appended without the test of its truth.
CollectUntested(i) ==
    /\ pc = "as_completed"
    /\ Yields(i)
    /\ collected' = collected \cup {i}
    /\ completed' = completed + 1
    /\ IF result[i].kind = "raised"
       THEN /\ errors' = errors \cup {i}
            /\ UNCHANGED <<pc, cur, users_data>>
       ELSE /\ users_data' = Append(users_data, result[i].details)
            /\ pc' = "repos_df"
            /\ cur' = i
            /\ UNCHANGED errors
    /\ UNCHANGED <<files, env, cleaning, berlin_users, users, submitted, pcw, call, sleep_left, page, repos,
                   user_details, result, logging, reqs, limiter, recent, all_repos_data>>

\* Variant: the loop body has no try, the worker's exception leaves the loop
\* and reaches the handler of main.
CollectUncaught(i) ==
    /\ pc = "as_completed"
    /\ Yields(i)
    /\ collected' = collected \cup {i}
    /\ completed' = completed + 1
    /\ IF result[i].kind = "raised"
       THEN /\ pc' = "error"
            /\ UNCHANGED <<errors, cur, users_data>>
       ELSE /\ users_data' = IF result[i].details # None
                             THEN Append(users_data, result[i].details)
                             ELSE users_data
            /\ pc' = "repos_df"
            /\ cur' = i
            /\ UNCHANGED errors
    /\ UNCHANGED <<files, env, cleaning, berlin_users, users, submitted, pcw, call, sleep_left, page, repos,
                   user_details, result, logging, reqs, limiter, recent, all_repos_data>>

\* One iteration up to users_data.append: future.result() re-raises the
\* worker's exception, which the except branch of the loop reports.
Collect(i) ==
    /\ pc = "as_completed"
    /\ Yields(i)
    /\ collected' = collected \cup {i}
    /\ completed' = completed + 1
    /\ IF result[i].kind = "raised"
       THEN /\ errors' = errors \cup {i}
            /\ UNCHANGED <<pc, cur, users_data>>
       ELSE /\ users_data' = IF result[i].details # None
                             THEN Append(users_data, result[i].details)
                             ELSE users_data
            /\ pc' = "repos_df"
            /\ cur' = i
            /\ UNCHANGED errors
    /\ UNCHANGED <<files, env, cleaning, berlin_users, users, submitted, pcw, call, sleep_left, page, repos,
                   user_details, result, logging, reqs, limiter, recent, all_repos_data>>

\* Variant: all_repos_data keeps the rows of the latest user only.
CollectReposReplace ==
    /\ pc = "repos_df"
    /\ IF result[cur].kind = "none"
       THEN /\ errors' = errors \cup {cur}
            /\ UNCHANGED all_repos_data
       ELSE /\ all_repos_data' = IF result[cur].repos_df # <<>>
                                 THEN <<result[cur].repos_df>>
                                 ELSE all_repos_data
            /\ UNCHANGED errors
    /\ pc' = "as_completed"
    /\ cur' = 0
    /\ UNCHANGED <<files, env, cleaning, berlin_users, users, submitted, pcw, call,
                   sleep_left, page, repos, user_details, result, logging, reqs,
                   limiter, recent, completed, collected, users_data>>

\* The rest of the iteration: repos_df.empty raises AttributeError on None,
\* which the except branch reports; a non-empty DataFrame is appended.
CollectRepos ==
    /\ pc = "repos_df"
    /\ IF result[cur].kind = "none"
       THEN /\ errors' = errors \cup {cur}
            /\ UNCHANGED all_repos_data
       ELSE /\ all_repos_data' = IF result[cur].repos_df # <<>>
                                 THEN Append(all_repos_data, result[cur].repos_df)
                                 ELSE all_repos_data
            /\ UNCHANGED errors
    /\ pc' = "as_completed"
    /\ cur' = 0
    /\ UNCHANGED <<files, env, cleaning, berlin_users, users, submitted, pcw, call, sleep_left, page, repos,
                   user_details, result, logging, reqs, limiter, recent, completed,
                   collected, users_data>>

\* as_completed is exhausted and the with block shuts the pool down.
ExitPool ==
    /\ pc = "as_completed"
    /\ collected = Stubs
    /\ pc' = "create"
    /\ UNCHANGED <<files, env, cleaning, berlin_users, users, submitted, pcw, call, sleep_left, page, repos,
                   user_details, result, logging, reqs, limiter, recent, completed,
                   collected, cur, users_data, all_repos_data, errors>>

(***************************************************************************)
(* clean_company_name.  A string is the sequence of its characters; the    *)
(* argument is a string or None.                                           *)
(***************************************************************************)
Alphabet == {"a", "B", " ", "\t", "@"}
Whitespace == {" ", "\t"}
Str(s) == [none |-> FALSE, str |-> s]
NoCompany == [none |-> TRUE, str |-> <<>>]

\* str.strip(): whitespace is taken off the left end, then off the right end.
RECURSIVE lstrip(_)
lstrip(s) == IF s # <<>> /\ Head(s) \in Whitespace THEN lstrip(Tail(s)) ELSE s
RECURSIVE rstrip(_)
rstrip(s) ==
    IF s # <<>> /\ s[Len(s)] \in Whitespace THEN rstrip(SubSeq(s, 1, Len(s) - 1)) ELSE s

\* Variant: only the left end is stripped.
strip_left(s) == lstrip(s)

\* company.strip()
strip(s) == rstrip(lstrip(s))

\* str.upper(), character by character.
upper_char(c) == CASE c = "a" -> "A" [] c = "b" -> "B" [] OTHER -> c
upper(s) == [k \in 1..Len(s) |-> upper_char(s[k])]

clean_company_name(c) ==
    IF c.none \/ c.str = <<>> THEN <<>>
    ELSE LET stripped == strip(c.str)
             rest == IF stripped # <<>> /\ Head(stripped) = "@"
                     THEN Tail(stripped) ELSE stripped
         IN upper(rest)

\* One call of clean_company_name.
CleanCompany ==
    /\ pc = "clean"
    /\ cleaned' = clean_company_name(company)
    /\ pc' = "cleaned"
    /\ UNCHANGED <<files, env, company, berlin_users, users, submitted, pcw, call,
                   sleep_left, page, repos, user_details, result, logging, reqs,
                   limiter, recent, completed, collected, cur, users_data,
                   all_repos_data, errors>>

\* The column lists of create_users_dataframe and create_repos_dataframe.
UserColumns ==
    <<"login", "name", "company", "location", "email", "hireable", "bio",
      "public_repos", "followers", "following", "created_at">>
RepoColumns ==
    <<"login", "full_name", "created_at", "stargazers_count", "watchers_count",
      "language", "has_projects", "has_wiki", "license_name">>

\* A table: its columns and its rows. pd.DataFrame() has neither.
DataFrame(columns, rows) == [columns |-> columns, rows |-> rows]
EmptyDataFrame == DataFrame(<<>>, <<>>)

\* create_users_dataframe: pd.DataFrame([]) has no column 'company', and
\* users_df['company'] raises KeyError; otherwise the frame is cut to columns.
create_users_dataframe(data) ==
    IF data = <<>> THEN [raises |-> TRUE, frame |-> EmptyDataFrame]
    ELSE [raises |-> FALSE, frame |-> DataFrame(UserColumns, data)]

\* pd.concat(all_repos_data, ignore_index=True) of frames that each have the
\* columns of create_repos_dataframe.
RECURSIVE Flatten(_)
Flatten(frames) == IF frames = <<>> THEN <<>> ELSE Head(frames) \o Flatten(Tail(frames))
concat(frames) == DataFrame(RepoColumns, Flatten(frames))

\* main after the with block: the final datasets are created and saved, or
\* the exception of create_users_dataframe reaches the handler of main.
SaveResults ==
    /\ pc = "create"
    /\ LET users_df == create_users_dataframe(users_data)
           repos_df == IF all_repos_data # <<>> THEN concat(all_repos_data)
                       ELSE EmptyDataFrame
       IN IF users_df.raises
          THEN /\ pc' = "error"
               /\ UNCHANGED files
          ELSE /\ pc' = "done"
               /\ users_csv' = users_df.frame
               /\ repos_csv' = repos_df
    /\ UNCHANGED <<env, cleaning, berlin_users, users, submitted, pcw, call,
                   sleep_left, page, repos, user_details, result, logging, reqs,
                   limiter, recent, completed, collected, cur, users_data,
                   all_repos_data, errors>>

(***************************************************************************)
(* Specifications.                                                         *)
(***************************************************************************)
InitCommon ==
    /\ users = <<>>
    /\ submitted = 0
    /\ pcw = [t \in Threads |-> "idle"]
    /\ sleep_left = [t \in Threads |-> 0]
    /\ repos = [t \in Threads |-> <<>>]
    /\ user_details = [t \in Threads |-> None]
    /\ result = [t \in Threads |-> Pending]
    /\ reqs = [t \in Threads |-> <<>>]
    /\ num_calls = 0
    /\ elapsed = 0
    /\ completed = 0
    /\ collected = {}
    /\ cur = 0
    /\ users_data = <<>>
    /\ all_repos_data = <<>>
    /\ errors = {}
    /\ users_csv = None
    /\ repos_csv = None
    /\ cleaned = <<>>

StubLists == {StubList(NumStubs)}

\* main after get_berlin_users has returned a list of stubs.
Init ==
    /\ InitCommon
    /\ company = NoCompany
    /\ pc = "submit"
    /\ berlin_users \in StubLists
    /\ recent = <<>>
    /\ logging = "off"
    /\ page = [t \in Threads |-> 0]
    /\ call = [t \in Threads |-> "none"]
    /\ max_repos = MAX_REPOS
    /\ remote = AnyRemote(MaxUserRepos)

\* The steps of the pool thread that runs stub i, and those of main.
Worker(i) == Start(i) \/ Acquire(i) \/ Details(i) \/ Repos(i)
Main == Submit \/ EnterLoop \/ (\E i \in Stubs : Collect(i)) \/ CollectRepos \/ ExitPool

Next ==
    \/ Tick
    \/ \E i \in Stubs : Acquire(i)
    \/ Submit
    \/ EnterLoop
    \/ \E i \in Stubs : Start(i)
    \/ \E i \in Stubs : Details(i)
    \/ \E i \in Stubs : Repos(i)
    \/ \E i \in Stubs : Collect(i)
    \/ CollectRepos
    \/ ExitPool

Spec == Init /\ [][Next]_vars

\* The scheduler runs every thread that can run, time passes and every
\* request returns.
Fairness ==
    /\ WF_vars(Tick)
    /\ WF_vars(Main)
    /\ \A i \in 1..NumFairStubs : WF_vars(Worker(i))

\* The fan-out over NumFairStubs stubs, under fair scheduling.
InitFair ==
    /\ InitCommon
    /\ company = NoCompany
    /\ pc = "submit"
    /\ berlin_users = StubList(NumFairStubs)
    /\ recent = <<>>
    /\ logging = "requests"
    /\ page = [t \in Threads |-> 0]
    /\ call = [t \in Threads |-> "none"]
    /\ max_repos = MAX_REPOS
    /\ remote = AnyRemote(MaxUserRepos)

FairSpec == InitFair /\ [][Next]_vars /\ Fairness

\* The same run, with the remote's log of the last ONE_MINUTE time units.
InitWindow ==
    /\ InitCommon
    /\ company = NoCompany
    /\ pc = "submit"
    /\ berlin_users \in StubLists
    /\ recent = [k \in 1..ONE_MINUTE |-> 0]
    /\ logging = "off"
    /\ page = [t \in Threads |-> 0]
    /\ call = [t \in Threads |-> "none"]
    /\ max_repos = MAX_REPOS
    /\ remote = AnyRemote(MaxUserRepos)

SpecWindow == InitWindow /\ [][Next]_vars

\* The fan-out over a single stub: one execution of process_user.
InitUser ==
    /\ InitCommon
    /\ company = NoCompany
    /\ pc = "submit"
    /\ berlin_users \in {<<l>> : l \in Logins}
    /\ recent = <<>>
    /\ logging = "answers"
    /\ page = [t \in Threads |-> 0]
    /\ call = [t \in Threads |-> "none"]
    /\ max_repos = MAX_REPOS
    /\ remote = AnyRemote(MaxUserRepos)

SpecUser == InitUser /\ [][Next]_vars

\* The whole of main after get_berlin_users has returned: the fan-out over
\* any list of up to NumFairStubs stubs, and the final datasets.
MainStubLists == UNION {[1..n -> Logins] : n \in 0..NumFairStubs}

InitMain ==
    /\ InitCommon
    /\ company = NoCompany
    /\ pc = "submit"
    /\ berlin_users \in MainStubLists
    /\ recent = <<>>
    /\ logging = "off"
    /\ page = [t \in Threads |-> 0]
    /\ call = [t \in Threads |-> "none"]
    /\ max_repos = MAX_REPOS
    /\ remote = AnyRemote(MaxUserRepos)

NextMain ==
    \/ Next
    \/ SaveResults

SpecMain == InitMain /\ [][NextMain]_vars

\* clean_company_name called on None or on any string of up to MaxLen
\* characters of Alphabet.
Strings == UNION {[1..n -> Alphabet] : n \in 0..MaxLen}
InitCompany ==
    /\ InitCommon
    /\ pc = "clean"
    /\ company \in {NoCompany} \cup {Str(s) : s \in Strings}
    /\ berlin_users = <<>>
    /\ recent = <<>>
    /\ logging = "off"
    /\ page = [t \in Threads |-> 0]
    /\ call = [t \in Threads |-> "none"]
    /\ max_repos = MAX_REPOS
    /\ remote = AnyRemote(MaxUserRepos)

NextCompany == CleanCompany

SpecCompany == InitCompany /\ [][NextCompany]_vars

\* main after get_berlin_users against a remote whose answer depends on the
\* request alone, for every such remote of FixedRemotes.
InitSchedule ==
    /\ InitCommon
    /\ company = NoCompany
    /\ pc = "submit"
    /\ berlin_users = StubList(NumStubs)
    /\ recent = <<>>
    /\ logging = "off"
    /\ page = [t \in Threads |-> 0]
    /\ call = [t \in Threads |-> "none"]
    /\ max_repos = MAX_REPOS
    /\ remote \in FixedRemotes

SpecSchedule == InitSchedule /\ [][NextMain]_vars

\* One execution of process_user whose get_user_repos runs with a max_repos
\* of 1..MaxCap, against a remote that lists up to MaxListed repositories.
InitRepos ==
    /\ InitCommon
    /\ company = NoCompany
    /\ pc = "submit"
    /\ berlin_users = <<LoginNames[1]>>
    /\ recent = <<>>
    /\ logging = "bodies"
    /\ page = [t \in Threads |-> 0]
    /\ call = [t \in Threads |-> "none"]
    /\ max_repos \in 1..MaxCap
    /\ remote = AnyRemote(MaxListed)

SpecRepos == InitRepos /\ [][Next]_vars

\* main at the call of get_berlin_users.
InitSearch ==
    /\ InitCommon
    /\ company = NoCompany
    /\ pc = "search"
    /\ berlin_users = <<>>
    /\ recent = <<>>
    /\ logging = "bodies"
    /\ page = [t \in Threads |-> IF t = 0 THEN 1 ELSE 0]
    /\ call = [t \in Threads |-> IF t = 0 THEN "acquire" ELSE "none"]
    /\ max_repos = MAX_REPOS
    /\ remote = AnyRemote(MaxUserRepos)

NextSearch ==
    \/ Tick
    \/ Acquire(0)
    \/ SearchPage

SpecSearch == InitSearch /\ [][NextSearch]_vars

\* get_berlin_users when the main thread is scheduled, time passes and every
\* request returns.
FairSearchSpec ==
    /\ InitSearch
    /\ [][NextSearch]_vars
    /\ WF_vars(Tick)
    /\ WF_vars(Acquire(0))
    /\ WF_vars(SearchPage)

(***************************************************************************)
(* Properties.                                                             *)
(***************************************************************************)
RECURSIVE SumSeq(_)
SumSeq(q) == IF q = <<>> THEN 0 ELSE Head(q) + SumSeq(Tail(q))

Range(q) == {q[k] : k \in 1..Len(q)}
Count(q, x) == Cardinality({k \in 1..Len(q) : q[k] = x})
FailureKinds == {"status", "transport", "decode"}
Workers == 1..NumFairStubs

Succeeded == {i \in Stubs : result[i].kind = "value"}
Failed == {i \in Stubs : result[i].kind \in {"raised", "none"}}
Rows == UNION {Range(all_repos_data[k]) : k \in 1..Len(all_repos_data)}
Requested(i, endpoint) == \E k \in 1..Len(reqs[i]) : reqs[i][k][1] = endpoint

\* C1: no interval of ONE_MINUTE time units, wherever it starts, holds more
\* than CALLS_PER_MINUTE requests: the requests of the last ONE_MINUTE time
\* units, which recent logs, never exceed the cap.
C1_SlidingWindow == recent # <<>> => SumSeq(recent) <= CALLS_PER_MINUTE

\* C2: a call blocked by the limiter eventually gets a slot and issues its
\* request. A thread waiting for a slot (attempting or asleep) stays in
\* api_call until it has the slot, and leaving the slot issues exactly one
\* request, so no call is dropped; and every thread is again and again
\* outside api_call, so none waits for a slot or for its answer for ever.
C2_NoStarvation ==
    /\ \A t \in Workers : []<>(call[t] = "none")
    /\ [][\A t \in Workers :
            /\ call[t] \in {"acquire", "sleep"}
                 => call'[t] \in {"acquire", "sleep", "request"}
            /\ (call[t] = "request" /\ call'[t] # "request")
                 => Len(reqs'[t]) = Len(reqs[t]) + 1]_vars

\* A worker sleeps in the limiter while others hold the window's slots.
C2_Witness == \E t \in Workers : call[t] = "sleep" /\ sleep_left[t] > 0

\* C3: at most max_workers executions of process_user are in flight.
C3_BoundedInFlight == Cardinality(InFlight) <= MAX_WORKERS

\* The pool is full while a submitted stub waits in the queue.
C3_Witness ==
    /\ Cardinality(InFlight) = MAX_WORKERS
    /\ \E i \in Stubs : pcw[i] = "queued"

\* C4: each stub is accounted for exactly once. During the loop every
\* yielded future has added one profile or one report, never both; at the
\* end every stub is yielded, the profiles are those of the stubs that
\* succeeded (one per stub) and the reports are the stubs that failed, so
\* the number of profiles is the number of stubs minus the number failed.
C4_Accounting ==
    /\ pc = "as_completed" =>
         /\ Len(users_data) + Cardinality(errors) = completed
         /\ completed = Cardinality(collected)
    /\ pc = "create" =>
         /\ completed = Len(berlin_users)
         /\ errors = Failed
         /\ Len(users_data) = Len(berlin_users) - Cardinality(Failed)
         /\ \A l \in Range(berlin_users) :
              Count(users_data, l) =
                Cardinality({i \in Succeeded : berlin_users[i] = l})

\* The fan-out has finished with stubs that failed and stubs that succeeded.
C4_Witness ==
    /\ pc = "create"
    /\ \E i, j, k \in Stubs :
         /\ result[i].kind = "none"
         /\ result[j].kind = "raised"
         /\ result[k].kind = "value"

\* C5: the fan-out completes: eventually main has left the pool and the
\* as_completed loop, and every stub's process_user has a terminal outcome.
C5_Completes ==
    <>(/\ pc = "create"
       /\ \A i \in Stubs : pcw[i] = "done" /\ result[i].kind # "pending")

\* main waits in as_completed while a worker sleeps in the limiter.
C5_Witness ==
    /\ pc = "as_completed"
    /\ \E i \in Stubs : call[i] = "sleep"

\* C6: a failed stub never aborts the scheduler (main never reaches its
\* top-level handler) and every other stub is still processed and collected:
\* at the end each stub is done and yielded, and the profile and the rows of
\* each stub that succeeded are in the datasets.
C6_Isolation ==
    /\ pc # "error"
    /\ pc = "create" =>
         \A i \in Stubs :
           /\ pcw[i] = "done"
           /\ i \in collected
           /\ result[i].kind = "value" =>
                /\ result[i].details \in Range(users_data)
                /\ result[i].repos_df # <<>> =>
                     result[i].repos_df \in Range(all_repos_data)

\* Stubs have failed both ways, by an exception and by (None, None), and
\* another one is in the datasets with its rows.
C6_Witness ==
    /\ pc = "create"
    /\ \E i, j \in errors : result[i].kind = "raised" /\ result[j].kind = "none"
    /\ users_data # <<>>
    /\ all_repos_data # <<>>

\* C7: in every state each row's login is the login of a profile of
\* users_data, and a login none of whose stubs has succeeded has no profile
\* and no row.
C7_RowsHaveOwners ==
    /\ \A row \in Rows : row.login \in Range(users_data)
    /\ \A l \in Range(berlin_users) :
         (\A i \in Stubs : berlin_users[i] = l => result[i].kind # "value")
           => /\ l \notin Range(users_data)
              /\ \A row \in Rows : row.login # l

\* Rows are accumulated while another user has failed.
C7_Witness ==
    /\ Rows # {}
    /\ Failed # {}
    /\ pc = "repos_df"

\* How the k-th request of thread t ended.
Ended(t, k) == reqs[t][k][3]
RepoFetchFailed(i) ==
    \E k \in 1..Len(reqs[i]) : reqs[i][k][1] = "repos" /\ Ended(i, k) \in FailureKinds

\* C8: if the detail fetch of a stub ended with a status other than 200, it
\* is the only request process_user ever issues for the stub (none goes to
\* the repository listing), the outcome is (None, None), and the stub adds
\* no profile and no rows.
C8_DetailFailureExcludesUser ==
    \A i \in Stubs :
      (reqs[i] # <<>> /\ Ended(i, 1) = "status") =>
        /\ Len(reqs[i]) = 1
        /\ ~Requested(i, "repos")
        /\ result[i] = NoneNone
        /\ users_data = <<>>
        /\ Rows = {}

\* The run has ended after a detail fetch that was refused.
C8_Witness ==
    /\ pc = "create"
    /\ \E i \in Stubs : reqs[i] # <<>> /\ Ended(i, 1) = "status"

\* C9: if the detail fetch succeeded and a fetch of the repository listing
\* failed, whatever the kind of failure, process_user returns the profile with
\* an empty DataFrame, and at the end the profile is in users_data and the
\* user has no rows.
C9_ReposFailureKeepsProfile ==
    \A i \in Stubs :
      (pcw[i] = "done" /\ RepoFetchFailed(i)) =>
        /\ result[i] = Value(berlin_users[i], <<>>)
        /\ pc = "create" => (berlin_users[i] \in Range(users_data) /\ Rows = {})

\* C10: when a page fetch of the search fails, whatever the kind of failure,
\* get_berlin_users stops there and returns the items of the pages fetched
\* before: main goes on to the fan-out with exactly these stubs.
C10_PartialResultOnFailure ==
    (reqs[0] # <<>> /\ Ended(0, Len(reqs[0])) \in FailureKinds) =>
      /\ pc = "submit"
      /\ call[0] = "none"
      /\ berlin_users = users

\* The requests thread i sent to the repository listing, in the order sent,
\* and the items of a sequence of logged answers, in that order.
RepoLog(i) == SelectSeq(reqs[i], LAMBDA e : e[1] = "repos")
RECURSIVE Concat(_)
Concat(log) == IF log = <<>> THEN <<>> ELSE Head(log)[4] \o Concat(Tail(log))
FullPage(e) == e[3] = "ok" /\ Len(e[4]) = PER_PAGE
ShortPage(e) == e[3] = "ok" /\ Len(e[4]) < PER_PAGE
ReposOf(df) == [k \in 1..Len(df) |-> df[k].repo]

\* C11: get_user_repos requests the pages 1, 2, 3, ... and every page before
\* the last one requested was a full page, so no page is requested after an
\* empty or short page; and when the last page is empty or short and the
\* accumulated count is below the cap, get_user_repos has returned, and the
\* result is the concatenation, in page order, of all the pages fetched.
C11_ShortPageEnds ==
    \A i \in Stubs :
      LET log == RepoLog(i)
          n == Len(log)
      IN /\ \A k \in 1..n : log[k][2] = k /\ (k < n => FullPage(log[k]))
         /\ (n > 0 /\ ShortPage(log[n]) /\ Len(Concat(log)) < max_repos) =>
              /\ pcw[i] = "done"
              /\ call[i] = "none"
              /\ result[i].kind = "value"
              /\ ReposOf(result[i].repos_df) = Concat(log)

\* Two full pages and a short one, below the cap: three requests, and the
\* result holds the items of the three pages.
C11_Witness ==
    \E i \in Stubs :
      /\ pcw[i] = "done"
      /\ Len(RepoLog(i)) = 3
      /\ ShortPage(RepoLog(i)[3])
      /\ Len(Concat(RepoLog(i))) = 2 * PER_PAGE + 1
      /\ 2 * PER_PAGE + 1 < max_repos
      /\ Len(result[i].repos_df) = 2 * PER_PAGE + 1

\* C12: a page is requested only while the items accumulated before it are
\* fewer than the cap; and the result of get_user_repos has at most max_repos
\* items: the first max_repos of the items fetched when that many or more
\* were fetched, all of them otherwise.
C12_CapRespected ==
    \A i \in Stubs :
      LET log == RepoLog(i)
          fetched == Concat(log)
          got == ReposOf(result[i].repos_df)
      IN /\ \A k \in 1..Len(log) : Len(Concat(SubSeq(log, 1, k - 1))) < max_repos
         /\ result[i].kind = "value" =>
              /\ Len(got) <= max_repos
              /\ Len(fetched) >= max_repos => got = SubSeq(fetched, 1, max_repos)
              /\ Len(fetched) < max_repos => got = fetched

\* A cap between one and two pages, and two full pages: two requests, and
\* the result is cut to the cap.
C12_Witness ==
    \E i \in Stubs :
      /\ pcw[i] = "done"
      /\ max_repos = PER_PAGE + 1
      /\ Len(RepoLog(i)) = 2
      /\ Len(Concat(RepoLog(i))) = 2 * PER_PAGE
      /\ Len(result[i].repos_df) = PER_PAGE + 1

\* A logged answer that is a 200 with items, and one that ends the search.
ItemsPage(e) == e[3] = "ok" /\ e[4] # <<>>
EmptyPage(e) == e[3] = "ok" /\ e[4] = <<>>
Refused(e) == e[3] = "status"

\* C13: the search requests the pages 1, 2, 3, ... in this order, a page
\* with no items is the last one requested, and when a page with no items has
\* come get_berlin_users has returned exactly the items of the earlier pages,
\* concatenated in the order the pages were fetched.
C13_EmptyPageEnds ==
    LET log == reqs[0]
        n == Len(log)
    IN /\ \A k \in 1..n : log[k][2] = k /\ (k < n => ~EmptyPage(log[k]))
       /\ (n > 0 /\ EmptyPage(log[n])) =>
            /\ pc = "submit"
            /\ call[0] = "none"
            /\ berlin_users = Concat(SubSeq(log, 1, n - 1))
            /\ \A k \in 1..(n - 1) : ItemsPage(log[k])

\* The search has returned after two pages with items and an empty third
\* one, with different users first and last.
C13_Witness ==
    /\ pc = "submit"
    /\ Len(reqs[0]) = 3
    /\ EmptyPage(reqs[0][3])
    /\ Len(reqs[0][1][4]) = PER_PAGE
    /\ Len(berlin_users) > PER_PAGE
    /\ berlin_users[1] # berlin_users[Len(berlin_users)]

\* C20: get_berlin_users terminates (the remote serves an empty page past
\* MaxSearchPages at the latest), and it has no cap of its own: the pages
\* requested are 1, 2, 3, ..., after a page with items the search goes on to
\* the next page, and it returns at the first page that is empty or has a
\* status other than 200, and only there.
C20_SearchTerminates ==
    /\ <>(pc # "search")
    /\ [](LET log == reqs[0]
              n == Len(log)
          IN /\ \A k \in 1..n : log[k][2] = k /\ (k < n => ItemsPage(log[k]))
             /\ (n > 0 /\ ItemsPage(log[n])) =>
                  (pc = "search" /\ page[0] = n + 1 /\ call[0] # "none")
             /\ (n > 0 /\ (EmptyPage(log[n]) \/ Refused(log[n]))) => pc = "submit"
             /\ pc = "submit" => (n > 0 /\ (EmptyPage(log[n]) \/ Refused(log[n]))))

\* Every page the remote serves had items and the search, asleep in the
\* limiter, is about to request the next one.
C20_Witness ==
    /\ pc = "search"
    /\ Len(reqs[0]) = MaxSearchPages
    /\ ItemsPage(reqs[0][MaxSearchPages])
    /\ call[0] = "sleep"

\* C14: main never ends in its top-level handler once the search has
\* returned, whatever the stubs and however their fetches end: it goes on to
\* write both tables.
C14_DatasetProduced == pc # "error"

\* C15: when main has written its outputs, users.csv has the 11 profile
\* columns and repositories.csv the 9 repository columns, in this order.
C15_Columns ==
    pc = "done" =>
      /\ users_csv.columns = UserColumns
      /\ repos_csv.columns = RepoColumns

\* C18: no two rows of the final users.csv have the same login.
C18_UniqueLogins ==
    pc = "done" =>
      \A j, k \in 1..Len(users_csv.rows) :
        j # k => users_csv.rows[j] # users_csv.rows[k]

\* The reference: nothing for an absent or empty input; otherwise the part
\* of the input from its first to its last character that is not whitespace,
\* without its first character if that is '@', in upper case.
Trimmed(s) ==
    LET solid == {k \in 1..Len(s) : s[k] \notin Whitespace} IN
      IF solid = {} THEN <<>>
      ELSE LET first == CHOOSE k \in solid : \A m \in solid : k <= m
               last == CHOOSE k \in solid : \A m \in solid : k >= m
           IN [k \in 1..(last - first + 1) |-> s[first + k - 1]]
WithoutAt(s) ==
    IF Len(s) > 0 /\ s[1] = "@" THEN [k \in 1..(Len(s) - 1) |-> s[k + 1]] ELSE s
CleanCompanyRef(c) ==
    IF c.none \/ Len(c.str) = 0 THEN <<>>
    ELSE [k \in 1..Len(WithoutAt(Trimmed(c.str))) |->
            upper_char(WithoutAt(Trimmed(c.str))[k])]

\* C16: the result of clean_company_name is that of the reference, for None
\* and for every string of up to MaxLen characters of Alphabet.
C16_CleanCompany == pc = "cleaned" => cleaned = CleanCompanyRef(company)

\* " @a" has been cleaned to "A": stripped, one '@' dropped, in upper case.
C16_Witness ==
    /\ pc = "cleaned"
    /\ company = Str(<<" ", "@", "a">>)
    /\ cleaned = <<"A">>

\* C17: a thread gets to its request only through a counted attempt within
\* the cap, and the attempt itself sends nothing; a request is sent only by a
\* thread that holds a slot, one request per slot; a thread asleep in the
\* retry loop sends nothing and goes back to the attempt. No request is sent
\* twice: the requests of a thread differ pairwise, the pages of its listing
\* are 1, 2, 3, ..., and a request that failed is the thread's last one.
C17_OneRequestPerSlot ==
    /\ [](\A t \in Stubs :
            /\ \A j, k \in 1..Len(reqs[t]) :
                 j < k => /\ <<reqs[t][j][1], reqs[t][j][2]>> # <<reqs[t][k][1], reqs[t][k][2]>>
                          /\ reqs[t][j][3] \notin FailureKinds
            /\ \A k \in 1..Len(RepoLog(t)) : RepoLog(t)[k][2] = k)
    /\ [][\A t \in Stubs :
            /\ (call'[t] = "request" /\ call[t] # "request") =>
                 /\ call[t] = "acquire"
                 /\ num_calls' <= CALLS_PER_MINUTE
                 /\ reqs' = reqs
            /\ reqs'[t] # reqs[t] =>
                 /\ call[t] = "request"
                 /\ call'[t] # "request"
                 /\ Len(reqs'[t]) = Len(reqs[t]) + 1
                 /\ SubSeq(reqs'[t], 1, Len(reqs[t])) = reqs[t]
            /\ call[t] = "sleep" =>
                 /\ reqs'[t] = reqs[t]
                 /\ call'[t] \in {"sleep", "acquire"}]_vars

\* A thread that has sent the requests the window allows is asleep in the
\* retry loop, its next request not yet sent.
C17_Witness ==
    \E t \in Stubs :
      /\ call[t] = "sleep"
      /\ sleep_left[t] > 0
      /\ Len(reqs[t]) = CALLS_PER_MINUTE
      /\ pcw[t] = "repos"
      /\ page[t] = 2

\* process_user run on its own against a fixed remote: the pages of the
\* listing one after the other, then the outcome of process_user.
RECURSIVE ListRepos(_, _, _)
ListRepos(username, p, rs) ==
    LET resp == CHOOSE r \in RepoResponses(username, p, Len(rs)) : TRUE
        step == ReposStep(rs, p, resp, max_repos)
    IN IF step.next = "fetch" THEN ListRepos(username, step.page, step.repos)
       ELSE [raised |-> step.next = "raise", repos |-> Truncate(step.repos, max_repos)]
Alone(username) ==
    LET resp == CHOOSE r \in DetailResponses(username) : TRUE
        next == DetailsStep(resp)
        listed == ListRepos(username, 1, <<>>)
    IN IF next = "raise" THEN Raised
       ELSE IF next = "return" THEN NoneNone
       ELSE IF listed.raised THEN Raised
       ELSE Value(Body(resp), create_repos_dataframe(listed.repos, username))
AloneProfiles == {l \in Range(berlin_users) : Alone(l).kind = "value"}
AloneRows == UNION {Range(Alone(l).repos_df) : l \in AloneProfiles}

\* C19: against a remote whose answers depend on the request alone, what
\* main has gathered when the pool is done, and what it writes, is as a set
\* the same on every schedule: the profiles and the rows that process_user
\* yields for each stub when run on its own; and whether main writes at all
\* does not depend on the schedule either.
C19_ScheduleIndependent ==
    /\ pc \in {"create", "done", "error"} =>
         /\ Range(users_data) = AloneProfiles
         /\ Rows = AloneRows
    /\ pc = "error" => AloneProfiles = {}
    /\ pc = "done" =>
         /\ AloneProfiles # {}
         /\ Range(users_csv.rows) = AloneProfiles
         /\ Range(repos_csv.rows) = AloneRows

\* The tables are written with the second stub's profile and rows first:
\* the workers did not complete in the order of submission.
C19_Witness ==
    /\ pc = "done"
    /\ Len(users_csv.rows) = Len(berlin_users)
    /\ users_csv.rows[1] = berlin_users[2]
    /\ Len(repos_csv.rows) = Len(berlin_users)
    /\ repos_csv.rows[1].login = berlin_users[2]

====
